---- MODULE Spec2Model ----
(***************************************************************************)
(* Model of src/src/snapshot/patch_apply.rs: apply_patch_set applies a     *)
(* PatchSet (removals, additions, updates) to a RojoTree and returns the   *)
(* AppliedPatchSet.  One call is a sequence of steps: one step per removed *)
(* id, per PatchAdd (the recursion over its child snapshots included), per *)
(* PatchUpdate, per entry of the deferred property map, and the return.    *)
(*                                                                         *)
(* The tree store (RojoTree: insert_instance, remove_instance,             *)
(* get_instance_mut, update_metadata) is not part of the source file; it   *)
(* is modelled from the interface the specification gives for it.          *)
(***************************************************************************)
EXTENDS Integers, Sequences, FiniteSets, TLC

VARIABLES
    tree,            \* RojoTree: id -> [name, class_name, properties, children, parent]
    metadata_map,    \* RojoTree: id -> metadata
    next_id,         \* the id the tree store mints next
    context,         \* PatchApplyContext of the running call
    diagnostics,     \* log::warn! records emitted by the running call
    patch_set,       \* the PatchSet handed to the running call
    pending,         \* what the three loops of apply_patch_set have not consumed yet
    pc,              \* "running" | "done" | "abort" (a panic)
    result,          \* Option<AppliedPatchSet>: the value returned by the call
    calls,           \* number of the running call (1 for the first)
    tree_before,     \* tree when the running call started
    metadata_before, \* metadata_map when the running call started
    previous         \* Option<[patch_set, result]> of the call before the running one

vars == <<tree, metadata_map, next_id, context, diagnostics, patch_set, pending,
          pc, result, calls, tree_before, metadata_before, previous>>

----------------------------------------------------------------------------
(* Option<T>, HashMap<K, V>                                                *)

None == <<>>
Some(x) == <<x>>
IsSome(o) == o # None
Unwrap(o) == o[1]

EmptyMap == [k \in {} |-> k]
MapInsert(m, k, v) == [x \in DOMAIN m \cup {k} |-> IF x = k THEN v ELSE m[x]]
MapRemove(m, k) == [x \in DOMAIN m \ {k} |-> m[x]]
MapOf1(k, v) == [x \in {k} |-> v]
MapOf2(k1, v1, k2, v2) == [x \in {k1, k2} |-> IF x = k1 THEN v1 ELSE v2]

(* RbxValue: Int32 { value } and Ref { value: Option<RbxId> }              *)
Int32(n) == [type |-> "Int32", value |-> Some(n)]
Ref(o) == [type |-> "Ref", value |-> o]
IsRefSome(v) == v.type = "Ref" /\ IsSome(v.value)

SeqToSet(s) == {s[i] : i \in 1..Len(s)}

(* let v = value; F(v): the value is computed once.                        *)
With(value, F(_)) == CHOOSE r \in {F(v) : v \in {value}} : TRUE

----------------------------------------------------------------------------
(* The tree store.                                                         *)

RECURSIVE Descendants(_, _)
Descendants(t, id) ==
    LET kids == {c \in DOMAIN t : t[c].parent = Some(id)}
    IN  kids \cup UNION {Descendants(t, c) : c \in kids}

RemoveFromSeq(s, x) == SelectSeq(s, LAMBDA y : y # x)

(* RojoTree::get_instance_mut(id).is_some()                                *)
HasInstance(t, id) == id \in DOMAIN t

(* RojoTree::remove_instance: removes id and its descendants; the result   *)
(* tells whether id existed.                                               *)
TreeRemove(t, id) ==
    LET gone == {id} \cup Descendants(t, id)
    IN  [x \in DOMAIN t \ gone |->
            [t[x] EXCEPT !.children = RemoveFromSeq(@, id)]]

MetadataRemove(mm, t, id) ==
    LET gone == {id} \cup Descendants(t, id)
    IN  [x \in DOMAIN mm \ gone |-> mm[x]]

(* RojoTree::insert_instance: mints a new id, creates the instance with    *)
(* the given name, class and properties under parent_id.                   *)
TreeInsert(t, id, name, class_name, properties, parent_id) ==
    [x \in DOMAIN t \cup {id} |->
        IF x = id
        THEN [name |-> name, class_name |-> class_name,
              properties |-> properties, children |-> <<>>,
              parent |-> Some(parent_id)]
        ELSE IF x = parent_id
             THEN [t[x] EXCEPT !.children = Append(@, id)]
             ELSE t[x]]

(* RojoTree::update_metadata(id, metadata)                                 *)
UpdateMetadata(mm, id, metadata) == MapInsert(mm, id, metadata)

----------------------------------------------------------------------------
(* patch_apply.rs.  The operators below take and return the record         *)
(*   st = [tree, metadata_map, next_id, context, diagnostics]              *)
(* that stands for (&mut context, &mut tree) and the diagnostic sink.      *)

(* PatchApplyContext::default()                                            *)
DefaultContext ==
    [snapshot_id_to_instance_id |-> EmptyMap,
     added_instance_properties |-> EmptyMap,
     applied_patch_set |-> [removed |-> <<>>, added |-> <<>>, updated |-> <<>>]]

(* log::warn!("Patch misapplication: ...")                                 *)
(* Variant: the diagnostic is not emitted.                                 *)
Warn_Silent(st, kind, id) == st

(* Variant: the diagnostic is emitted twice.                               *)
Warn_Twice(st, kind, id) ==
    [st EXCEPT !.diagnostics = @ \o <<[kind |-> kind, id |-> id],
                                      [kind |-> kind, id |-> id]>>]

Warn(st, kind, id) ==
    [st EXCEPT !.diagnostics = Append(@, [kind |-> kind, id |-> id])]

(* context.applied_patch_set.removed.push(removed_id)                      *)
RecordRemoved(applied, removed_id) ==
    [applied EXCEPT !.removed = Append(@, removed_id)]

(* Variant: records the id as removed whether or not the tree held it.     *)
apply_remove_instance_AlwaysRecorded(st, removed_id) ==
    [(IF HasInstance(st.tree, removed_id)
      THEN [st EXCEPT
              !.tree = TreeRemove(st.tree, removed_id),
              !.metadata_map = MetadataRemove(st.metadata_map, st.tree, removed_id)]
      ELSE Warn(st, "remove", removed_id))
     EXCEPT !.context.applied_patch_set = RecordRemoved(@, removed_id)]

(* Variant: only an instance without children is removed.                  *)
apply_remove_instance_LeafOnly(st, removed_id) ==
    IF HasInstance(st.tree, removed_id) /\ st.tree[removed_id].children = <<>>
    THEN [st EXCEPT
            !.tree = TreeRemove(st.tree, removed_id),
            !.metadata_map = MetadataRemove(st.metadata_map, st.tree, removed_id),
            !.context.applied_patch_set = RecordRemoved(@, removed_id)]
    ELSE Warn(st, "remove", removed_id)

apply_remove_instance(st, removed_id) ==
    IF HasInstance(st.tree, removed_id)
    THEN [st EXCEPT
            !.tree = TreeRemove(st.tree, removed_id),
            !.metadata_map = MetadataRemove(st.metadata_map, st.tree, removed_id),
            !.context.applied_patch_set = RecordRemoved(@, removed_id)]
    ELSE Warn(st, "remove", removed_id)

(* InstancePropertiesWithMeta built from the snapshot: the property map is *)
(* empty, assignment is deferred.                                          *)
(* Variant: the instance is created with the properties of the snapshot.  *)
NewInstanceProperties_Eager(snapshot) ==
    [name |-> snapshot.name,
     class_name |-> snapshot.class_name,
     properties |-> snapshot.properties,
     metadata |-> snapshot.metadata]

(* Variant: the name and the class of the snapshot are exchanged.          *)
NewInstanceProperties_Swapped(snapshot) ==
    [name |-> snapshot.class_name,
     class_name |-> snapshot.name,
     properties |-> EmptyMap,
     metadata |-> snapshot.metadata]

NewInstanceProperties(snapshot) ==
    [name |-> snapshot.name,
     class_name |-> snapshot.class_name,
     properties |-> EmptyMap,
     metadata |-> snapshot.metadata]

(* Variant: defers the properties under the snapshot's own id.             *)
DeferProperties_BySnapshotId(deferred, id, snapshot) ==
    MapInsert(deferred,
              IF IsSome(snapshot.snapshot_id) THEN Unwrap(snapshot.snapshot_id) ELSE id,
              snapshot.properties)

(* Variant: defers the properties under the id the tree mints next.        *)
DeferProperties_NextId(deferred, id, snapshot) ==
    MapInsert(deferred, id + 1, snapshot.properties)

(* Variant: defers the properties under the id of the root.                *)
DeferProperties_UnderRoot(deferred, id, snapshot) ==
    MapInsert(deferred, 1, snapshot.properties)

(* context.added_instance_properties.insert(id, snapshot.properties)       *)
DeferProperties(deferred, id, snapshot) ==
    MapInsert(deferred, id, snapshot.properties)

(* if let Some(snapshot_id) = snapshot.snapshot_id { map.insert(..) }      *)
(* Variant: no snapshot id is recorded.                                    *)
RecordSnapshotId_Never(map, id, snapshot) == map

RecordSnapshotId(map, id, snapshot) ==
    IF IsSome(snapshot.snapshot_id)
    THEN MapInsert(map, Unwrap(snapshot.snapshot_id), id)
    ELSE map

(* Variant: the new id is put at the front of the added list.              *)
RecordAdded_Front(applied, id) ==
    [applied EXCEPT !.added = <<id>> \o @]

(* context.applied_patch_set.added.push(id)                                *)
RecordAdded(applied, id) ==
    [applied EXCEPT !.added = Append(@, id)]

RECURSIVE apply_add_child(_, _, _)
RECURSIVE AddChildren(_, _, _)

(* Variant: the child snapshots are added last to first.                   *)
AddChildren_Reversed(st, id, children) ==
    IF children = <<>>
    THEN st
    ELSE With(AddChildren(st, id, Tail(children)),
              LAMBDA next : apply_add_child(next, id, Head(children)))

(* for child_snapshot in snapshot.children { apply_add_child(.., id, ..) } *)
AddChildren(st, id, children) ==
    IF children = <<>>
    THEN st
    ELSE With(apply_add_child(st, id, Head(children)),
              LAMBDA next : AddChildren(next, id, Tail(children)))

apply_add_child(st, parent_id, snapshot) ==
    LET properties == NewInstanceProperties(snapshot)
        id == st.next_id
        inserted ==
            [st EXCEPT
                !.tree = TreeInsert(st.tree, id, properties.name,
                                    properties.class_name, properties.properties,
                                    parent_id),
                !.metadata_map = MapInsert(@, id, properties.metadata),
                !.next_id = id + 1,
                !.context.applied_patch_set = RecordAdded(@, id),
                !.context.added_instance_properties =
                    DeferProperties(@, id, snapshot),
                !.context.snapshot_id_to_instance_id =
                    RecordSnapshotId(@, id, snapshot)]
    IN  With(inserted, LAMBDA next : AddChildren(next, id, snapshot.children))

(* AppliedPatchUpdate::new(id)                                             *)
NewAppliedPatchUpdate(id) ==
    [id |-> id, changed_name |-> None, changed_class_name |-> None,
     changed_properties |-> EmptyMap, changed_metadata |-> None]

(* Variant: the id is never translated.                                    *)
TranslateOrKeep_Keep(map, id) == id

(* snapshot_id_to_instance_id.get(&id).copied().unwrap_or(id)              *)
TranslateOrKeep(map, id) ==
    IF id \in DOMAIN map THEN map[id] ELSE id

(* Variant: a removal leaves the property in place.                        *)
ApplyPropertyEntry_KeepRemoved(map, properties, key, property_entry) ==
    IF IsSome(property_entry)
    THEN LET value == Unwrap(property_entry)
         IN  IF IsRefSome(value)
             THEN MapInsert(properties, key,
                            Ref(Some(TranslateOrKeep(map, Unwrap(value.value)))))
             ELSE MapInsert(properties, key, value)
    ELSE properties

(* One arm of the match on property_entry, applied to the property map.    *)
ApplyPropertyEntry(map, properties, key, property_entry) ==
    IF IsSome(property_entry)
    THEN LET value == Unwrap(property_entry)
         IN  IF IsRefSome(value)
             THEN MapInsert(properties, key,
                            Ref(Some(TranslateOrKeep(map, Unwrap(value.value)))))
             ELSE MapInsert(properties, key, value)
    ELSE MapRemove(properties, key)

(* applied_patch.changed_properties.insert(key, property_entry)            *)
MirrorPropertyEntry(map, changed, key, property_entry) ==
    MapInsert(changed, key, property_entry)

(* for (key, property_entry) in patch.changed_properties: acc is the pair  *)
(* (instance properties, applied_patch.changed_properties).                *)
RECURSIVE ApplyChangedProperties(_, _, _, _)
ApplyChangedProperties(map, acc, changed_properties, keys) ==
    IF keys = {}
    THEN acc
    ELSE LET key == CHOOSE k \in keys : TRUE
             entry == changed_properties[key]
         IN  ApplyChangedProperties(
                 map,
                 [properties |-> ApplyPropertyEntry(map, acc.properties, key, entry),
                  changed |-> MirrorPropertyEntry(map, acc.changed, key, entry)],
                 changed_properties, keys \ {key})

(* The metadata part of apply_update_child, which runs before the lookup   *)
(* of the instance.                                                        *)
UpdateChildMetadata(mm, patch) ==
    IF IsSome(patch.changed_metadata)
    THEN UpdateMetadata(mm, patch.id, Unwrap(patch.changed_metadata))
    ELSE mm

apply_update_child(st, patch) ==
    LET applied0 == [NewAppliedPatchUpdate(patch.id) EXCEPT
                        !.changed_metadata = patch.changed_metadata]
        st1 == [st EXCEPT !.metadata_map = UpdateChildMetadata(@, patch)]
    IN  IF ~HasInstance(st1.tree, patch.id)
        THEN Warn(st1, "update", patch.id)
        ELSE LET instance == st1.tree[patch.id]
                 acc == ApplyChangedProperties(
                            st1.context.snapshot_id_to_instance_id,
                            [properties |-> instance.properties,
                             changed |-> EmptyMap],
                            patch.changed_properties,
                            DOMAIN patch.changed_properties)
                 new_instance ==
                     [instance EXCEPT
                        !.name = IF IsSome(patch.changed_name)
                                 THEN Unwrap(patch.changed_name) ELSE @,
                        !.class_name = IF IsSome(patch.changed_class_name)
                                       THEN Unwrap(patch.changed_class_name) ELSE @,
                        !.properties = acc.properties]
                 applied_patch ==
                     [applied0 EXCEPT
                        !.changed_name = patch.changed_name,
                        !.changed_class_name = patch.changed_class_name,
                        !.changed_properties = acc.changed]
             IN  [st1 EXCEPT
                    !.tree[patch.id] = new_instance,
                    !.context.applied_patch_set.updated = Append(@, applied_patch)]

(* Variant: the deferred value is written as the snapshot holds it.        *)
FinalizeValue_Verbatim(map, property_value) == property_value

(* The rewrite of one deferred property value in finalization.             *)
FinalizeValue(map, property_value) ==
    IF IsRefSome(property_value) /\ Unwrap(property_value.value) \in DOMAIN map
    THEN Ref(Some(map[Unwrap(property_value.value)]))
    ELSE property_value

(* for (key, property_value) in properties { ..insert(key, property_value) } *)
FinalizeProperties(map, instance_properties, properties) ==
    [k \in DOMAIN instance_properties \cup DOMAIN properties |->
        IF k \in DOMAIN properties
        THEN FinalizeValue(map, properties[k])
        ELSE instance_properties[k]]

----------------------------------------------------------------------------
(* Inputs: the tree a call starts from and the patches handed to it.       *)

MaxRemoved == 2     \* length of patch_set.removed_instances
MaxSnapshots == 2   \* snapshots (top-level and nested) added by one patch
MaxUpdated == 1     \* length of patch_set.updated_instances

Instance(name, class_name, properties, children, parent) ==
    [name |-> name, class_name |-> class_name, properties |-> properties,
     children |-> children, parent |-> parent]

(* Root 1 with child 2, which has child 3.                                 *)
InitialTree ==
    [x \in {1, 2, 3} |->
        CASE x = 1 -> Instance("Root", "DataModel",
                               MapOf2("Foo", Int32(7), "Bar", Int32(3)),
                               <<2>>, None)
          [] x = 2 -> Instance("Two", "Folder", MapOf1("Bar", Ref(Some(3))),
                               <<3>>, Some(1))
          [] x = 3 -> Instance("Three", "Part", MapOf1("Foo", Int32(7)),
                               <<>>, Some(2))]

InitialMetadata == [x \in {1, 2, 3} |-> "init"]

BoundedSeqs(S, n) == UNION {[1..k -> S] : k \in 0..n}
InjectiveSeqs(S, n) ==
    {s \in BoundedSeqs(S, n) : \A i, j \in 1..Len(s) : i # j => s[i] # s[j]}

(* Ids a patch asks to remove: 2 (with its child 3), 3, and 9, which is no *)
(* instance of the tree.  The removals of a patch are a set of ids, taken  *)
(* in any order.                                                           *)
RemovedIds == {2, 3, 9}
RemovedLists == InjectiveSeqs(RemovedIds, MaxRemoved)

(* The snapshot that is i-th in the pre-order of a patch carries the       *)
(* snapshot-space id 20 + i, when it carries one.                          *)
SnapshotIdAt(i) == 20 + i
SnapshotNameAt(i) == IF i % 2 = 1 THEN "Foo" ELSE "Baz"
PlainProperties ==
    [x \in {"Baz", "Bar", "Target"} |->
        CASE x = "Baz" -> Int32(5)
          [] x = "Bar" -> Ref(None)
          [] x = "Target" -> Ref(Some(3))]
SnapshotProperties ==
    { PlainProperties,
      MapOf1("Baz", Ref(Some(SnapshotIdAt(1)))),
      MapOf1("Baz", Ref(Some(SnapshotIdAt(2)))) }
AddParents == {1, 3}

(* Forests of n snapshots, given by the depth of each in pre-order.        *)
Shapes(n) ==
    {d \in [1..n -> 0..(n - 1)] :
        /\ n > 0 => d[1] = 0
        /\ \A i \in 1..(n - 1) : d[i + 1] <= d[i] + 1}

Contents(n) ==
    [1..n -> [parent_id : AddParents, has_id : BOOLEAN,
              properties : SnapshotProperties]]

SubtreeEnd(d, i) ==
    CHOOSE j \in i..Len(d) :
        /\ \A k \in (i + 1)..j : d[k] > d[i]
        /\ (j = Len(d) \/ d[j + 1] <= d[i])

SortedSeq(S) ==
    CHOOSE s \in [1..Cardinality(S) -> S] :
        /\ \A i, j \in 1..Cardinality(S) : i < j => s[i] < s[j]

RECURSIVE MakeSnapshot(_, _, _)
MakeSnapshot(d, c, i) ==
    LET kids == SortedSeq({j \in (i + 1)..SubtreeEnd(d, i) : d[j] = d[i] + 1})
    IN  [snapshot_id |-> IF c[i].has_id THEN Some(SnapshotIdAt(i)) ELSE None,
         name |-> SnapshotNameAt(i),
         class_name |-> "Bar",
         properties |-> c[i].properties,
         children |-> [k \in 1..Len(kids) |-> MakeSnapshot(d, c, kids[k])],
         metadata |-> "snapshot"]

MakeAdded(d, c) ==
    LET tops == SortedSeq({i \in 1..Len(d) : d[i] = 0})
    IN  [k \in 1..Len(tops) |->
            [parent_id |-> c[tops[k]].parent_id,
             instance |-> MakeSnapshot(d, c, tops[k])]]

(* Only a top-level snapshot has a parent id of its own in the patch.      *)
ContentsFor(d) ==
    {c \in Contents(Len(d)) : \A i \in 1..Len(d) : d[i] > 0 => c[i].parent_id = 1}

AddedLists ==
    UNION {UNION {{MakeAdded(d, c) : c \in ContentsFor(d)} : d \in Shapes(n)} :
           n \in 0..MaxSnapshots}

ChangedFields ==
    { <<None, None, None>>,
      <<Some("Foo"), None, None>>,
      <<None, Some("NewClassName"), None>>,
      <<None, None, Some("updated")>>,
      <<Some("Foo"), Some("NewClassName"), Some("updated")>> }

ChangedProperties ==
    { EmptyMap,
      MapOf2("Foo", Some(Int32(8)), "Bar", None),
      MapOf2("Foo", None, "Baz", Some(Int32(10))),
      MapOf2("Foo", Some(Ref(Some(SnapshotIdAt(1)))), "Bar", Some(Ref(Some(3)))),
      MapOf1("Foo", Some(Ref(None))) }

UpdatedIds == {1, 3}

PatchUpdates ==
    { [id |-> id, changed_name |-> f[1], changed_class_name |-> f[2],
       changed_metadata |-> f[3], changed_properties |-> cp] :
        id \in UpdatedIds, f \in ChangedFields, cp \in ChangedProperties }

UpdatedLists == BoundedSeqs(PatchUpdates, MaxUpdated)

PatchSet(removed, added, updated) ==
    [removed_instances |-> removed, added_instances |-> added,
     updated_instances |-> updated]

(* The one update of the patches that vary the additions: it refers to the *)
(* first and to the second snapshot of the patch.                          *)
RefUpdate ==
    [id |-> 1, changed_name |-> None, changed_class_name |-> None,
     changed_metadata |-> None,
     changed_properties |-> MapOf2("Foo", Some(Ref(Some(SnapshotIdAt(1)))),
                                   "Bar", Some(Ref(Some(SnapshotIdAt(2)))))]

(* The one addition of the patches that vary the updates.                  *)
LeafAdd ==
    [parent_id |-> 1,
     instance |-> [snapshot_id |-> Some(SnapshotIdAt(1)),
                   name |-> SnapshotNameAt(1), class_name |-> "Bar",
                   properties |-> PlainProperties, children |-> <<>>,
                   metadata |-> "snapshot"]]

(* An update of an instance that an earlier removal of the patch may have  *)
(* taken from the tree.                                                    *)
StaleUpdate ==
    [id |-> 3, changed_name |-> Some("Foo"), changed_class_name |-> None,
     changed_metadata |-> Some("updated"),
     changed_properties |-> MapOf1("Foo", Some(Int32(8)))]

(* A snapshot with two child snapshots of different names, the first      *)
(* child referring to the second and the second to their parent.           *)
OrderedAdd ==
    MakeAdded(<<0, 1, 1>>,
              [i \in 1..3 |->
                  [parent_id |-> 1, has_id |-> TRUE,
                   properties |->
                       CASE i = 1 -> PlainProperties
                         [] i = 2 -> MapOf1("Baz", Ref(Some(SnapshotIdAt(3))))
                         [] i = 3 -> MapOf1("Baz", Ref(Some(SnapshotIdAt(1))))]])

(* The additions of the patches that vary them.                            *)
VariedAddedLists == AddedLists \cup {OrderedAdd}

(* Few removals: none, 2 (and with it 3), and 2 followed by 3, which is    *)
(* gone by then.  Few additions, few updates.                              *)
FewRemovedLists == {<<>>, <<2>>, <<2, 3>>}
FewAddedLists == {<<>>, <<LeafAdd>>}
FewUpdatedLists == {<<>>, <<RefUpdate>>, <<StaleUpdate>>}

(* A patch varies its removals, its additions or its updates.              *)
IsPatch(p) ==
    \/ /\ p.removed_instances \in RemovedLists
       /\ p.added_instances \in FewAddedLists
       /\ p.updated_instances \in FewUpdatedLists
    \/ /\ p.removed_instances \in FewRemovedLists
       /\ p.added_instances \in VariedAddedLists
       /\ p.updated_instances \in FewUpdatedLists
    \/ /\ p.removed_instances \in FewRemovedLists
       /\ p.added_instances \in FewAddedLists
       /\ p.updated_instances \in UpdatedLists

----------------------------------------------------------------------------
(* One call of apply_patch_set.                                            *)

State ==
    [tree |-> tree, metadata_map |-> metadata_map, next_id |-> next_id,
     context |-> context, diagnostics |-> diagnostics]

Becomes(st) ==
    /\ tree' = st.tree
    /\ metadata_map' = st.metadata_map
    /\ next_id' = st.next_id
    /\ context' = st.context
    /\ diagnostics' = st.diagnostics

StartCall(p) ==
    /\ patch_set = p
    /\ pending = p
    /\ context = DefaultContext
    /\ diagnostics = <<>>
    /\ pc = "running"
    /\ result = None

Init ==
    /\ tree = InitialTree
    /\ metadata_map = InitialMetadata
    /\ next_id = 10
    /\ calls = 1
    /\ tree_before = tree
    /\ metadata_before = metadata_map
    /\ previous = None
    /\ \/ \E r \in RemovedLists, a \in FewAddedLists, u \in FewUpdatedLists :
                StartCall(PatchSet(r, a, u))
       \/ \E r \in FewRemovedLists, a \in VariedAddedLists, u \in FewUpdatedLists :
                StartCall(PatchSet(r, a, u))
       \/ \E r \in FewRemovedLists, a \in FewAddedLists, u \in UpdatedLists :
                StartCall(PatchSet(r, a, u))

Unchanged == UNCHANGED <<patch_set, calls, tree_before, metadata_before, previous>>

(* for removed_id in patch_set.removed_instances                           *)
ApplyRemoveInstance ==
    /\ pc = "running"
    /\ pending.removed_instances # <<>>
    /\ \E st \in {apply_remove_instance(State, Head(pending.removed_instances))} :
          Becomes(st)
    /\ pending' = [pending EXCEPT !.removed_instances = Tail(@)]
    /\ UNCHANGED <<pc, result>>
    /\ Unchanged

(* for add_patch in patch_set.added_instances                              *)
ApplyAddChild ==
    /\ pc = "running"
    /\ pending.removed_instances = <<>>
    /\ pending.added_instances # <<>>
    /\ LET add_patch == Head(pending.added_instances)
       IN  \E st \in {apply_add_child(State, add_patch.parent_id,
                                        add_patch.instance)} :
              Becomes(st)
    /\ pending' = [pending EXCEPT !.added_instances = Tail(@)]
    /\ UNCHANGED <<pc, result>>
    /\ Unchanged

(* Variant: the loop over the updates does not wait for the additions.     *)
ApplyUpdateChild_BeforeAdditions ==
    /\ pc = "running"
    /\ pending.removed_instances = <<>>
    /\ pending.updated_instances # <<>>
    /\ \E st \in {apply_update_child(State, Head(pending.updated_instances))} :
          Becomes(st)
    /\ pending' = [pending EXCEPT !.updated_instances = Tail(@)]
    /\ UNCHANGED <<pc, result>>
    /\ Unchanged

(* Variant: the loop over the updates does not wait for the removals.      *)
ApplyUpdateChild_BeforeRemovals ==
    /\ pc = "running"
    /\ pending.added_instances = <<>>
    /\ pending.updated_instances # <<>>
    /\ \E st \in {apply_update_child(State, Head(pending.updated_instances))} :
          Becomes(st)
    /\ pending' = [pending EXCEPT !.updated_instances = Tail(@)]
    /\ UNCHANGED <<pc, result>>
    /\ Unchanged

(* for update_patch in patch_set.updated_instances                         *)
ApplyUpdateChild ==
    /\ pc = "running"
    /\ pending.removed_instances = <<>>
    /\ pending.added_instances = <<>>
    /\ pending.updated_instances # <<>>
    /\ \E st \in {apply_update_child(State, Head(pending.updated_instances))} :
          Becomes(st)
    /\ pending' = [pending EXCEPT !.updated_instances = Tail(@)]
    /\ UNCHANGED <<pc, result>>
    /\ Unchanged

LoopsDone ==
    /\ pending.removed_instances = <<>>
    /\ pending.added_instances = <<>>
    /\ pending.updated_instances = <<>>

(* One iteration of the loop of finalize_patch_application over            *)
(* context.added_instance_properties, a HashMap: any order.                *)
FinalizeInstance ==
    /\ pc = "running"
    /\ LoopsDone
    /\ \E id \in DOMAIN context.added_instance_properties :
        LET properties == context.added_instance_properties[id]
        IN  IF HasInstance(tree, id)
            THEN /\ tree' = [tree EXCEPT ![id].properties =
                                FinalizeProperties(
                                    context.snapshot_id_to_instance_id,
                                    @, properties)]
                 /\ context' = [context EXCEPT !.added_instance_properties =
                                    MapRemove(@, id)]
                 /\ pc' = pc
            ELSE \* .expect("Invalid instance ID in deferred property map")
                 /\ pc' = "abort"
                 /\ UNCHANGED <<tree, context>>
    /\ UNCHANGED <<metadata_map, next_id, diagnostics, pending, result>>
    /\ Unchanged

(* finalize_patch_application returns context.applied_patch_set            *)
Return ==
    /\ pc = "running"
    /\ LoopsDone
    /\ context.added_instance_properties = EmptyMap
    /\ pc' = "done"
    /\ result' = Some(context.applied_patch_set)
    /\ UNCHANGED <<tree, metadata_map, next_id, context, diagnostics, pending>>
    /\ Unchanged

Next ==
    \/ ApplyRemoveInstance
    \/ ApplyAddChild
    \/ ApplyUpdateChild
    \/ FinalizeInstance
    \/ Return

Spec == Init /\ [][Next]_vars

----------------------------------------------------------------------------
(* A caller that applies one patch after the other to the same tree.       *)

MaxCalls == 2   \* calls of apply_patch_set in a row

CallPatches ==
    { PatchSet(r, a, u) :
        r \in RemovedLists, a \in FewAddedLists, u \in FewUpdatedLists }

InitCalls ==
    /\ tree = InitialTree
    /\ metadata_map = InitialMetadata
    /\ next_id = 10
    /\ calls = 1
    /\ tree_before = tree
    /\ metadata_before = metadata_map
    /\ previous = None
    /\ \E p \in CallPatches : StartCall(p)

(* Variant: the context of the call before is kept.                       *)
NextCall_KeepContext ==
    /\ pc = "done"
    /\ calls < MaxCalls
    /\ \E p \in CallPatches :
        /\ patch_set' = p
        /\ pending' = p
    /\ diagnostics' = <<>>
    /\ pc' = "running"
    /\ result' = None
    /\ calls' = calls + 1
    /\ tree_before' = tree
    /\ metadata_before' = metadata_map
    /\ previous' = Some([patch_set |-> patch_set, result |-> Unwrap(result),
                         snapshot_id_to_instance_id |->
                             context.snapshot_id_to_instance_id])
    /\ UNCHANGED <<tree, metadata_map, next_id, context>>

(* The caller calls apply_patch_set again, after the call before returned. *)
NextCall ==
    /\ pc = "done"
    /\ calls < MaxCalls
    /\ \E p \in CallPatches :
        /\ patch_set' = p
        /\ pending' = p
    /\ context' = DefaultContext
    /\ diagnostics' = <<>>
    /\ pc' = "running"
    /\ result' = None
    /\ calls' = calls + 1
    /\ tree_before' = tree
    /\ metadata_before' = metadata_map
    /\ previous' = Some([patch_set |-> patch_set, result |-> Unwrap(result),
                         snapshot_id_to_instance_id |->
                             context.snapshot_id_to_instance_id])
    /\ UNCHANGED <<tree, metadata_map, next_id>>

NextCalls == Next \/ NextCall

SpecCalls == InitCalls /\ [][NextCalls]_vars

----------------------------------------------------------------------------
(* What the claims speak about.                                            *)

Applied == context.applied_patch_set
Translation == context.snapshot_id_to_instance_id
Deferred == context.added_instance_properties

(* The step of the running call that consumes the next removed id, the     *)
(* next PatchAdd, the next PatchUpdate.                                    *)
RemovalStep ==
    /\ pc = "running"
    /\ pending.removed_instances # <<>>
    /\ pending' = [pending EXCEPT !.removed_instances = Tail(@)]
AdditionStep ==
    /\ pc = "running"
    /\ pending.added_instances # <<>>
    /\ pending' = [pending EXCEPT !.added_instances = Tail(@)]
UpdateStep ==
    /\ pc = "running"
    /\ pending.updated_instances # <<>>
    /\ pending' = [pending EXCEPT !.updated_instances = Tail(@)]

(* The snapshots of a patch in the order in which apply_add_child visits   *)
(* them, each with the parent it is added under: the parent id of its      *)
(* PatchAdd (index 0), or the index of its parent snapshot in this order.  *)
RECURSIVE VisitSnapshots(_, _, _)
VisitSnapshot(snapshot, parent, offset) ==
    <<[snapshot |-> snapshot, parent |-> parent]>>
        \o VisitSnapshots(snapshot.children, [index |-> offset + 1, id |-> 0],
                          offset + 1)
VisitSnapshots(snapshots, parent, offset) ==
    IF snapshots = <<>>
    THEN <<>>
    ELSE LET first == VisitSnapshot(Head(snapshots), parent, offset)
         IN  first \o VisitSnapshots(Tail(snapshots), parent, offset + Len(first))
RECURSIVE VisitAdded(_, _)
VisitAdded(added, offset) ==
    IF added = <<>>
    THEN <<>>
    ELSE LET first == VisitSnapshot(Head(added).instance,
                                    [index |-> 0, id |-> Head(added).parent_id],
                                    offset)
         IN  first \o VisitAdded(Tail(added), offset + Len(first))

Visited == VisitAdded(patch_set.added_instances, 0)
(* The i-th snapshot of the patch, the id minted for it, the parent id it  *)
(* is added under.                                                         *)
SnapshotAt(i) == Visited[i].snapshot
MintedAt(i) == Applied.added[i]
ParentOf(i) ==
    IF Visited[i].parent.index = 0
    THEN Visited[i].parent.id
    ELSE MintedAt(Visited[i].parent.index)

RefTarget(value) == Unwrap(value.value)

Warned(kind, id) ==
    \E i \in 1..Len(diagnostics) : diagnostics[i] = [kind |-> kind, id |-> id]

(* C1: every call runs the removal, addition, update and finalization      *)
(* phases to completion and returns a change log: no state of a call is an *)
(* abort, a running call can always take its next step, and a returned     *)
(* call has consumed the three lists and the deferred property map.        *)
C1_AlwaysReturns ==
    /\ pc \in {"running", "done"}
    /\ pc = "running" => ENABLED Next
    /\ pc = "done" =>
          /\ LoopsDone
          /\ Deferred = EmptyMap
          /\ result = Some(Applied)

(* A returned call whose patch removed a missing id and added a snapshot   *)
(* under a parent that was not in the tree.                                *)
C1_Witness ==
    /\ pc = "done"
    /\ \E i \in 1..Len(diagnostics) : diagnostics[i].kind = "remove"
    /\ \E i \in 1..Len(patch_set.added_instances) :
          patch_set.added_instances[i].parent_id \notin DOMAIN tree
    /\ Applied.added # <<>>

(* C2: a removal step appends the id to the removed list exactly when the  *)
(* id is in the tree, an update step appends one record with the target's  *)
(* id exactly when the target is in the tree, and no other step changes    *)
(* either list.                                                            *)
C2_LogOnlyApplied ==
    [][ /\ RemovalStep =>
            LET removed_id == Head(pending.removed_instances)
            IN  Applied'.removed =
                    IF removed_id \in DOMAIN tree
                    THEN Append(Applied.removed, removed_id)
                    ELSE Applied.removed
        /\ ~RemovalStep /\ pc = "running" => Applied'.removed = Applied.removed
        /\ UpdateStep =>
            LET id == Head(pending.updated_instances).id
            IN  IF id \in DOMAIN tree
                THEN /\ Len(Applied'.updated) = Len(Applied.updated) + 1
                     /\ SubSeq(Applied'.updated, 1, Len(Applied.updated))
                            = Applied.updated
                     /\ Applied'.updated[Len(Applied'.updated)].id = id
                ELSE Applied'.updated = Applied.updated
        /\ ~UpdateStep /\ pc = "running" => Applied'.updated = Applied.updated
      ]_vars

(* A returned call that skipped a removal and an update and applied a      *)
(* removal.                                                                *)
C2_Witness ==
    /\ pc = "done"
    /\ \E i \in 1..Len(diagnostics) : diagnostics[i].kind = "remove"
    /\ \E i \in 1..Len(diagnostics) : diagnostics[i].kind = "update"
    /\ Applied.removed # <<>>
    /\ Len(Applied.removed) < Len(patch_set.removed_instances)
    /\ Len(Applied.updated) < Len(patch_set.updated_instances)

(* C3: an update record whose target is not in the tree leaves the tree    *)
(* store (instances and metadata) and the change log unchanged.            *)
C3_SkippedUpdateChangesNothing ==
    [][ UpdateStep /\ Head(pending.updated_instances).id \notin DOMAIN tree =>
            /\ tree' = tree
            /\ metadata_map' = metadata_map
            /\ Applied' = Applied
      ]_vars

(* C4: when a property of an added snapshot A refers to the snapshot-space *)
(* id carried by an added snapshot B of the same patch, then after the     *)
(* call that property of A's instance refers to the id minted for B, and   *)
(* not to the snapshot-space id.                                           *)
C4_ReferencesResolve ==
    pc = "done" =>
        /\ Len(Applied.added) = Len(Visited)
        /\ \A a, b \in 1..Len(Visited) :
            \A key \in DOMAIN SnapshotAt(a).properties :
                (/\ IsSome(SnapshotAt(b).snapshot_id)
                 /\ SnapshotAt(a).properties[key] = Ref(SnapshotAt(b).snapshot_id))
                =>
                (/\ MintedAt(a) \in DOMAIN tree
                 /\ key \in DOMAIN tree[MintedAt(a)].properties
                 /\ tree[MintedAt(a)].properties[key] = Ref(Some(MintedAt(b)))
                 /\ tree[MintedAt(a)].properties[key] # Ref(SnapshotAt(b).snapshot_id))

(* A returned call whose patch has a forward and a backward reference: the *)
(* first snapshot refers to the second and the second to the first.        *)
C4_Witness ==
    /\ pc = "done"
    /\ Len(Visited) = 2
    /\ IsSome(SnapshotAt(1).snapshot_id)
    /\ IsSome(SnapshotAt(2).snapshot_id)
    /\ SnapshotAt(1).properties = MapOf1("Baz", Ref(SnapshotAt(2).snapshot_id))
    /\ SnapshotAt(2).properties = MapOf1("Baz", Ref(SnapshotAt(1).snapshot_id))

(* No property of the snapshot is a reference that the translation map     *)
(* rewrites.                                                               *)
NoTranslatedReference(snapshot) ==
    \A key \in DOMAIN snapshot.properties :
        LET value == snapshot.properties[key]
        IN  ~(IsRefSome(value) /\ RefTarget(value) \in DOMAIN Translation)

IsChildOf(id, parent_id) ==
    /\ parent_id \in DOMAIN tree
    /\ \E i \in 1..Len(tree[parent_id].children) : tree[parent_id].children[i] = id

NextUpdate == Head(pending.updated_instances)
UpdateOfExisting == UpdateStep /\ NextUpdate.id \in DOMAIN tree

(* The name and the class after an update step are the new values when     *)
(* present and the old ones when absent.                                   *)
NameAndClassUpdated ==
    /\ tree'[NextUpdate.id].name =
           IF IsSome(NextUpdate.changed_name)
           THEN Unwrap(NextUpdate.changed_name)
           ELSE tree[NextUpdate.id].name
    /\ tree'[NextUpdate.id].class_name =
           IF IsSome(NextUpdate.changed_class_name)
           THEN Unwrap(NextUpdate.changed_class_name)
           ELSE tree[NextUpdate.id].class_name

(* C6, as claimed: an update of an existing instance with property map P   *)
(* and change mapping D yields exactly the map holding the set value for a *)
(* key D sets, no entry for a key D removes and P's entry for a key not in *)
(* D; the name and the class become the new values when present.           *)
C6_UpdateYieldsExactMap_Claimed ==
    [][UpdateOfExisting =>
        LET D == NextUpdate.changed_properties
            P == tree[NextUpdate.id].properties
            Q == tree'[NextUpdate.id].properties
        IN  /\ DOMAIN Q = (DOMAIN P \ {k \in DOMAIN D : D[k] = None})
                               \cup {k \in DOMAIN D : IsSome(D[k])}
            /\ \A k \in DOMAIN Q :
                  Q[k] = IF k \in DOMAIN D THEN Unwrap(D[k]) ELSE P[k]
            /\ NameAndClassUpdated]_vars

(* The value stored for a set value: a reference to an id that is a key of *)
(* the translation map is stored as a reference to the mapped id.          *)
StoredFor(value) ==
    IF IsRefSome(value) /\ RefTarget(value) \in DOMAIN Translation
    THEN Ref(Some(Translation[RefTarget(value)]))
    ELSE value

(* C6, amended: the same, the value held for a key D sets being the set    *)
(* value with a reference to a key of the translation map replaced by a    *)
(* reference to the mapped id.                                             *)
C6_UpdateYieldsExactMap ==
    [][UpdateOfExisting =>
        LET D == NextUpdate.changed_properties
            P == tree[NextUpdate.id].properties
            Q == tree'[NextUpdate.id].properties
        IN  /\ DOMAIN Q = (DOMAIN P \ {k \in DOMAIN D : D[k] = None})
                               \cup {k \in DOMAIN D : IsSome(D[k])}
            /\ \A k \in DOMAIN Q :
                  Q[k] = IF k \in DOMAIN D THEN StoredFor(Unwrap(D[k])) ELSE P[k]
            /\ NameAndClassUpdated]_vars

(* An update of the root was applied that removed Foo, set Baz, left Bar   *)
(* as it was and changed the name.                                         *)
C6_Witness ==
    /\ patch_set.updated_instances # <<>>
    /\ pending.updated_instances = <<>>
    /\ Len(Applied.updated) = 1
    /\ patch_set.updated_instances[1].id = 1
    /\ patch_set.updated_instances[1].changed_properties =
           MapOf2("Foo", None, "Baz", Some(Int32(10)))
    /\ IsSome(patch_set.updated_instances[1].changed_name)
    /\ tree[1].properties = MapOf2("Bar", Int32(3), "Baz", Int32(10))

(* C7: the record of an applied update mirrors what was written: a set     *)
(* entry of the record carries the value stored under its key right after  *)
(* the update, a remove entry goes with the key being absent from the      *)
(* instance, and the record has an entry for each key of the change        *)
(* mapping.                                                                *)
C7_RecordMirrorsWritten ==
    [][UpdateOfExisting =>
        LET D == NextUpdate.changed_properties
            Q == tree'[NextUpdate.id].properties
            record == Applied'.updated[Len(Applied'.updated)]
        IN  /\ Len(Applied'.updated) = Len(Applied.updated) + 1
            /\ record.id = NextUpdate.id
            /\ DOMAIN record.changed_properties = DOMAIN D
            /\ \A k \in DOMAIN D :
                  LET entry == record.changed_properties[k]
                  IN  /\ IsSome(entry) => k \in DOMAIN Q /\ Q[k] = Unwrap(entry)
                      /\ entry = None => k \notin DOMAIN Q]_vars

(* C8: an update of an existing instance writes, for a set reference to an *)
(* id x, a reference to the translated id when x is a key of the           *)
(* translation map and a reference to x when it is not; it writes a        *)
(* reference holding nothing and a value that is no reference verbatim.    *)
C8_UpdateTranslatesReferences ==
    [][UpdateOfExisting =>
        \A k \in DOMAIN NextUpdate.changed_properties :
            IsSome(NextUpdate.changed_properties[k]) =>
                LET value == Unwrap(NextUpdate.changed_properties[k])
                    written == tree'[NextUpdate.id].properties
                IN  /\ k \in DOMAIN written
                    /\ (IsRefSome(value) /\ RefTarget(value) \in DOMAIN Translation)
                         => written[k] = Ref(Some(Translation[RefTarget(value)]))
                    /\ (IsRefSome(value) /\ RefTarget(value) \notin DOMAIN Translation)
                         => written[k] = Ref(Some(RefTarget(value)))
                    /\ ~IsRefSome(value) => written[k] = value]_vars

(* An update of the root was applied that set Foo to a reference to a      *)
(* snapshot id of the patch and Bar to a reference to an instance that was *)
(* in the tree: Foo holds the minted id, Bar the id as given.              *)
C8_Witness ==
    /\ patch_set.updated_instances # <<>>
    /\ pending.updated_instances = <<>>
    /\ Len(Applied.updated) = 1
    /\ patch_set.updated_instances[1].id = 1
    /\ patch_set.updated_instances[1].changed_properties =
           MapOf2("Foo", Some(Ref(Some(SnapshotIdAt(1)))), "Bar", Some(Ref(Some(3))))
    /\ SnapshotIdAt(1) \in DOMAIN Translation
    /\ tree[1].properties["Foo"] = Ref(Some(Translation[SnapshotIdAt(1)]))
    /\ tree[1].properties["Bar"] = Ref(Some(3))

(* The returned call is the second of two calls in a row with the same     *)
(* patch, which holds removals only.                                       *)
SameRemovalPatchAgain ==
    /\ pc = "done"
    /\ IsSome(previous)
    /\ Unwrap(previous).patch_set = patch_set
    /\ patch_set.added_instances = <<>>
    /\ patch_set.updated_instances = <<>>

(* C9: the second of two calls with the same removal-only patch returns a  *)
(* change log with an empty removed list, emits a diagnostic for each id   *)
(* of the patch and leaves the tree as the first call left it.             *)
C9_SecondRemovalChangesNothing ==
    SameRemovalPatchAgain =>
        /\ IsSome(result)
        /\ Unwrap(result).removed = <<>>
        /\ \A i \in 1..Len(patch_set.removed_instances) :
              Warned("remove", patch_set.removed_instances[i])
        /\ tree = tree_before
        /\ metadata_map = metadata_before

(* The second call returned and the first had removed an instance.         *)
C9_Witness ==
    /\ SameRemovalPatchAgain
    /\ Unwrap(previous).result.removed # <<>>
    /\ Len(patch_set.removed_instances) = 2

(* The ids carried by the snapshots of the patch.                          *)
SnapshotIds ==
    {Unwrap(SnapshotAt(i).snapshot_id) :
        i \in {j \in 1..Len(Visited) : IsSome(SnapshotAt(j).snapshot_id)}}

(* The instances of the tree before the call that the removals of the      *)
(* patch take out of it: those the patch names and their descendants.      *)
RemovedByPatch ==
    UNION {{id} \cup Descendants(tree_before, id) :
              id \in SeqToSet(patch_set.removed_instances) \cap DOMAIN tree_before}

(* The references held by the properties of the added snapshots.           *)
SnapshotReferences ==
    UNION {{RefTarget(SnapshotAt(i).properties[k]) :
               k \in {key \in DOMAIN SnapshotAt(i).properties :
                         IsRefSome(SnapshotAt(i).properties[key])}} :
           i \in 1..Len(Visited)}

(* Every reference-valued property of every instance added by the call is  *)
(* nothing or the id of an instance that is in the tree.                   *)
AddedReferencesInTree ==
    \A i \in 1..Len(Visited) :
        /\ MintedAt(i) \in DOMAIN tree
        /\ \A k \in DOMAIN tree[MintedAt(i)].properties :
              LET value == tree[MintedAt(i)].properties[k]
              IN  IsRefSome(value) => RefTarget(value) \in DOMAIN tree

(* C10, as claimed: when every reference of an added snapshot targets a    *)
(* snapshot id of the patch or an instance that was in the tree before the *)
(* call, every reference of an added instance is, when the call returns,   *)
(* nothing or the id of an instance in the tree.                           *)
C10_AddedReferencesResolve_Claimed ==
    (/\ pc = "done"
     /\ SnapshotReferences \subseteq SnapshotIds \cup DOMAIN tree_before)
    => AddedReferencesInTree

(* C10, amended: the same for a patch whose references to instances that   *)
(* were in the tree before the call target none that the removals of the   *)
(* patch take out of the tree.                                             *)
C10_AddedReferencesResolve ==
    (/\ pc = "done"
     /\ SnapshotReferences \subseteq
            SnapshotIds \cup (DOMAIN tree_before \ RemovedByPatch))
    => AddedReferencesInTree

(* A returned call that added two snapshots, one referring to the other    *)
(* and one referring to an instance that was and still is in the tree.     *)
C10_Witness ==
    /\ pc = "done"
    /\ Len(Visited) = 2
    /\ SnapshotReferences \subseteq
            SnapshotIds \cup (DOMAIN tree_before \ RemovedByPatch)
    /\ SnapshotReferences \cap SnapshotIds # {}
    /\ SnapshotReferences \cap DOMAIN tree_before # {}

(* C11: a removal id or an update record whose target is missing when it   *)
(* is processed emits exactly one diagnostic and the call goes on with the *)
(* next item; a removal or an update whose target exists emits none, and   *)
(* no other step of a call emits a diagnostic.                             *)
C11_OneDiagnosticPerMissingTarget ==
    [][/\ RemovalStep =>
            LET removed_id == Head(pending.removed_instances)
            IN  /\ pc' = "running"
                /\ diagnostics' =
                       IF removed_id \in DOMAIN tree
                       THEN diagnostics
                       ELSE Append(diagnostics, [kind |-> "remove", id |-> removed_id])
       /\ UpdateStep =>
            /\ pc' = "running"
            /\ diagnostics' =
                   IF NextUpdate.id \in DOMAIN tree
                   THEN diagnostics
                   ELSE Append(diagnostics, [kind |-> "update", id |-> NextUpdate.id])
       /\ (pc = "running" /\ ~RemovalStep /\ ~UpdateStep) =>
            diagnostics' = diagnostics]_vars

(* A returned call that removed an instance, met one removal id and one    *)
(* update record without a target and emitted the two diagnostics.         *)
C11_Witness ==
    /\ pc = "done"
    /\ Len(patch_set.removed_instances) = 2
    /\ Len(Applied.removed) = 1
    /\ patch_set.updated_instances # <<>>
    /\ Applied.updated = <<>>
    /\ Len(diagnostics) = 2
    /\ diagnostics[1].kind = "remove"
    /\ diagnostics[2].kind = "update"

(* C12: the fatal assertion of finalization is unreachable: no state of a  *)
(* call is an abort, and every key of the deferred-property store is, from *)
(* the start of finalization on, the id of an instance of the tree.        *)
C12_DeferredInstancesExist ==
    /\ pc # "abort"
    /\ (pc = "running" /\ LoopsDone) =>
            \A id \in DOMAIN Deferred : HasInstance(tree, id)

(* Finalization starts with the properties of three added instances       *)
(* deferred, after a removal.                                              *)
C12_Witness ==
    /\ pc = "running"
    /\ LoopsDone
    /\ Cardinality(DOMAIN Deferred) = 3
    /\ Applied.removed # <<>>

(* C13: an update is processed only when every addition of the patch, the  *)
(* nested child snapshots included, has been processed; a set reference to *)
(* the snapshot id of any added snapshot, whatever its position or depth,  *)
(* is written to an existing target as a reference to the id minted for    *)
(* that snapshot.                                                          *)
C13_UpdatesSeeEveryAddition ==
    [][UpdateStep =>
        /\ pending.added_instances = <<>>
        /\ Len(Applied.added) = Len(Visited)
        /\ NextUpdate.id \in DOMAIN tree =>
              \A k \in DOMAIN NextUpdate.changed_properties :
                  \A b \in 1..Len(Visited) :
                      (/\ IsSome(SnapshotAt(b).snapshot_id)
                       /\ NextUpdate.changed_properties[k] =
                              Some(Ref(SnapshotAt(b).snapshot_id)))
                      => /\ k \in DOMAIN tree'[NextUpdate.id].properties
                         /\ tree'[NextUpdate.id].properties[k] =
                                Ref(Some(MintedAt(b)))]_vars

(* An update of the root was applied that refers to the first snapshot of  *)
(* the patch and to the second, a child of the first: the root holds the   *)
(* two minted ids.                                                         *)
C13_Witness ==
    /\ patch_set.updated_instances = <<RefUpdate>>
    /\ pending.updated_instances = <<>>
    /\ Len(Applied.updated) = 1
    /\ Len(Visited) >= 2
    /\ Visited[2].parent.index = 1
    /\ SnapshotAt(1).snapshot_id = Some(SnapshotIdAt(1))
    /\ SnapshotAt(2).snapshot_id = Some(SnapshotIdAt(2))
    /\ tree[1].properties["Foo"] = Ref(Some(MintedAt(1)))
    /\ tree[1].properties["Bar"] = Ref(Some(MintedAt(2)))

(* C14: from its creation until finalization starts, through the rest of   *)
(* the addition phase and the update phase, an added instance has an empty *)
(* property map in the tree and its snapshot's properties are held as the  *)
(* snapshot gives them in the deferred-property store under its new id; it *)
(* has its snapshot's properties when the call returns.                    *)
C14_PropertiesDeferred ==
    /\ pc = "running" =>
          \A i \in 1..Len(Applied.added) :
              /\ ~LoopsDone => MintedAt(i) \in DOMAIN Deferred
              /\ MintedAt(i) \in DOMAIN Deferred =>
                    /\ MintedAt(i) \in DOMAIN tree
                    /\ tree[MintedAt(i)].properties = EmptyMap
                    /\ Deferred[MintedAt(i)] = SnapshotAt(i).properties
    /\ pc = "done" =>
          \A i \in 1..Len(Applied.added) :
              /\ MintedAt(i) \in DOMAIN tree
              /\ DOMAIN tree[MintedAt(i)].properties = DOMAIN SnapshotAt(i).properties

(* The update phase of a call that added two snapshots and applied an      *)
(* update is over and finalization has not written a property yet.         *)
C14_Witness ==
    /\ pc = "running"
    /\ LoopsDone
    /\ Applied.updated # <<>>
    /\ Len(Applied.added) = 2
    /\ \A i \in 1..2 :
          /\ MintedAt(i) \in DOMAIN Deferred
          /\ Deferred[MintedAt(i)] # EmptyMap
          /\ tree[MintedAt(i)].properties = EmptyMap

(* The indexes, in the order of the visit, of the child snapshots of the   *)
(* i-th snapshot, and of the top-level snapshots added under parent_id.    *)
Indexes == [j \in 1..Len(Visited) |-> j]
ChildIndexes(i) == SelectSeq(Indexes, LAMBDA j : Visited[j].parent.index = i)
TopIndexesUnder(parent_id) ==
    SelectSeq(Indexes, LAMBDA j : /\ Visited[j].parent.index = 0
                                  /\ Visited[j].parent.id = parent_id)

(* C15: after the call the ordered child list of the instance of every     *)
(* added snapshot corresponds one to one, in order, to the snapshot's list *)
(* of child snapshots, and the child list of an instance that was in the   *)
(* tree ends with the instances of the snapshots added under it, in the    *)
(* order of the patch's addition list.                                     *)
C15_SiblingOrderPreserved ==
    pc = "done" =>
        /\ \A i \in 1..Len(Visited) :
              LET kids == tree[MintedAt(i)].children
                  declared == SnapshotAt(i).children
              IN  /\ Len(kids) = Len(declared)
                  /\ \A k \in 1..Len(kids) :
                        /\ kids[k] = MintedAt(ChildIndexes(i)[k])
                        /\ tree[kids[k]].name = declared[k].name
                        /\ tree[kids[k]].class_name = declared[k].class_name
        /\ \A parent_id \in DOMAIN tree_before \cap DOMAIN tree :
              LET kids == tree[parent_id].children
                  added == TopIndexesUnder(parent_id)
                  kept == Len(kids) - Len(added)
              IN  /\ kept >= 0
                  /\ \A k \in 1..kept : kids[k] \in DOMAIN tree_before
                  /\ \A k \in 1..Len(added) :
                        /\ kids[kept + k] = MintedAt(added[k])
                        /\ tree[kids[kept + k]].name = SnapshotAt(added[k]).name

(* A returned call that added a snapshot with two child snapshots of       *)
(* different names: the instance has the two children in that order.       *)
C15_Witness ==
    /\ pc = "done"
    /\ Len(Visited) = 3
    /\ Len(SnapshotAt(1).children) = 2
    /\ SnapshotAt(1).children[1].name # SnapshotAt(1).children[2].name
    /\ tree[MintedAt(1)].children = <<MintedAt(2), MintedAt(3)>>
    /\ tree[MintedAt(2)].name = SnapshotAt(1).children[1].name
    /\ tree[MintedAt(3)].name = SnapshotAt(1).children[2].name

(* C16: the added list of the change log holds one id per snapshot of the  *)
(* patch, nested child snapshots included, without duplicates; each is the *)
(* id of the instance of the snapshot at its place in the pre-order, was   *)
(* not in the tree before the call, and comes before the ids of the        *)
(* instances of the snapshot's descendants.                                *)
C16_AddedListInPreOrder ==
    pc = "done" =>
        LET added == Unwrap(result).added
        IN  /\ Len(added) = Len(Visited)
            /\ \A a, b \in 1..Len(added) : a # b => added[a] # added[b]
            /\ \A i \in 1..Len(added) :
                  /\ added[i] \notin DOMAIN tree_before
                  /\ added[i] \in DOMAIN tree
                  /\ tree[added[i]].name = SnapshotAt(i).name
                  /\ Visited[i].parent.index > 0 =>
                        tree[added[i]].parent = Some(added[Visited[i].parent.index])
            /\ \A a, b \in 1..Len(added) :
                  tree[added[b]].parent = Some(added[a]) => a < b

(* A returned call whose added list holds the id of an instance followed   *)
(* by the ids of its two children.                                         *)
C16_Witness ==
    /\ pc = "done"
    /\ Len(Unwrap(result).added) = 3
    /\ tree[Unwrap(result).added[2]].parent = Some(Unwrap(result).added[1])
    /\ tree[Unwrap(result).added[3]].parent = Some(Unwrap(result).added[1])

(* The removal phase of the running call has just ended: the loop over    *)
(* the removals is over and no addition or update has been processed.      *)
EndOfRemovalPhase ==
    /\ pc = "running"
    /\ pending.removed_instances = <<>>
    /\ pending.added_instances = patch_set.added_instances
    /\ pending.updated_instances = patch_set.updated_instances

(* The tree t without the instances of gone.                               *)
TreeWithout(t, gone) ==
    [x \in DOMAIN t \ gone |->
        [t[x] EXCEPT !.children = SelectSeq(@, LAMBDA c : c \notin gone)]]

(* C17: the tree after the removal phase is a function of the set of the   *)
(* removed ids, whatever their order in the patch: it is the tree before   *)
(* the call without the ids of the set and without their descendants.      *)
C17_RemovalOrderIndependent ==
    EndOfRemovalPhase =>
        /\ tree = TreeWithout(tree_before, RemovedByPatch)
        /\ \A id \in SeqToSet(patch_set.removed_instances) :
              /\ id \notin DOMAIN tree
              /\ id \in DOMAIN tree_before =>
                    Descendants(tree_before, id) \cap DOMAIN tree = {}

(* The removal phase has ended for a patch that names an instance after    *)
(* its descendant.                                                         *)
C17_Witness ==
    /\ EndOfRemovalPhase
    /\ patch_set.removed_instances = <<3, 2>>
    /\ Applied.removed = <<3, 2>>
    /\ DOMAIN tree = {1}

(* The removal phase has ended for a patch that names an instance before   *)
(* its descendant.                                                         *)
C17_WitnessParentFirst ==
    /\ EndOfRemovalPhase
    /\ patch_set.removed_instances = <<2, 3>>
    /\ Applied.removed = <<2>>
    /\ DOMAIN tree = {1}

(* C18: no addition and no update of a patch is processed while a removal  *)
(* of it is left; an update record for an instance that the removals of    *)
(* the same patch take out of the tree, itself or through an ancestor, is  *)
(* skipped: when the call returns the instance is not in the tree, the     *)
(* update was reported missing and the updated list has no record for it.  *)
C18_RemovalsBeforeUpdates ==
    /\ pending.removed_instances # <<>> =>
          /\ pending.added_instances = patch_set.added_instances
          /\ pending.updated_instances = patch_set.updated_instances
          /\ Applied.added = <<>>
          /\ Applied.updated = <<>>
    /\ pc = "done" =>
          \A i \in 1..Len(patch_set.updated_instances) :
              LET x == patch_set.updated_instances[i].id
              IN  x \in RemovedByPatch =>
                     /\ x \notin DOMAIN tree
                     /\ Warned("update", x)
                     /\ \A j \in 1..Len(Applied.updated) : Applied.updated[j].id # x

(* A returned call whose patch removed instance 2 and carried an update of *)
(* its child 3.                                                            *)
C18_Witness ==
    /\ pc = "done"
    /\ patch_set.removed_instances = <<2>>
    /\ patch_set.updated_instances = <<StaleUpdate>>
    /\ Applied.removed = <<2>>
    /\ Applied.updated = <<>>
    /\ 3 \notin DOMAIN tree

(* The ids of the update records of a sequence.                            *)
UpdatedIdsOf(updated) == {updated[j].id : j \in 1..Len(updated)}

(* The change log lists only what the running call did: removals the patch *)
(* names of instances that were in the tree before the call, one addition  *)
(* per snapshot of the patch, none of an id that was in the tree before    *)
(* the call, and updates of instances the patch names.                     *)
LogOfThisCall(log) ==
    /\ SeqToSet(log.removed) \subseteq
           SeqToSet(patch_set.removed_instances) \cap DOMAIN tree_before
    /\ Len(log.removed) <= Len(patch_set.removed_instances)
    /\ Len(log.added) = Len(Visited)
    /\ SeqToSet(log.added) \cap DOMAIN tree_before = {}
    /\ Len(log.updated) <= Len(patch_set.updated_instances)
    /\ UpdatedIdsOf(log.updated) \subseteq UpdatedIdsOf(patch_set.updated_instances)

(* C19: every call of a sequence of calls on one tree starts with an empty *)
(* translation map, an empty deferred-property store and an empty change   *)
(* log; a set reference to a snapshot id that only the call before         *)
(* translated is written as it is; the change log a call returns lists     *)
(* only that call's removals, additions and updates.                       *)
C19_ContextPerCall ==
    [][/\ calls' = calls + 1 => context' = DefaultContext
       /\ (UpdateOfExisting /\ IsSome(previous)) =>
             \A k \in DOMAIN NextUpdate.changed_properties :
                 LET entry == NextUpdate.changed_properties[k]
                 IN  (/\ IsSome(entry)
                      /\ IsRefSome(Unwrap(entry))
                      /\ RefTarget(Unwrap(entry)) \in
                             DOMAIN Unwrap(previous).snapshot_id_to_instance_id
                      /\ RefTarget(Unwrap(entry)) \notin SnapshotIds)
                     => tree'[NextUpdate.id].properties[k] = Unwrap(entry)
       /\ pc' = "done" => LogOfThisCall(Unwrap(result'))]_vars

(* The second call returned; the first had added the snapshot with the     *)
(* first snapshot id, the second added nothing and set a property of the   *)
(* root to a reference to that id: the root holds the id as given, and     *)
(* the change log has the update only.                                     *)
C19_Witness ==
    /\ pc = "done"
    /\ IsSome(previous)
    /\ SnapshotIdAt(1) \in DOMAIN Unwrap(previous).snapshot_id_to_instance_id
    /\ Unwrap(previous).result.added # <<>>
    /\ patch_set.added_instances = <<>>
    /\ patch_set.updated_instances = <<RefUpdate>>
    /\ tree[1].properties["Foo"] = Ref(Some(SnapshotIdAt(1)))
    /\ Unwrap(result).added = <<>>
    /\ Len(Unwrap(result).updated) = 1

(* The instances that were in the tree before the call and that the        *)
(* removals of the patch leave in it.                                      *)
Remaining == DOMAIN tree_before \ RemovedByPatch

(* The ids minted for the top-level snapshots added under parent_id, in    *)
(* the order of the addition list.                                         *)
AddedUnder(parent_id) ==
    [k \in 1..Len(TopIndexesUnder(parent_id)) |->
        MintedAt(TopIndexesUnder(parent_id)[k])]

(* Every remaining instance is in the tree under its parent; one that is   *)
(* not the target of an applied update has its name, class, property map   *)
(* and metadata of before the call; its child list is that of before the   *)
(* call without the removed children, followed by the instances added      *)
(* under it.                                                               *)
FrameKept ==
    \A x \in Remaining :
        /\ x \in DOMAIN tree
        /\ tree[x].parent = tree_before[x].parent
        /\ x \notin UpdatedIdsOf(Applied.updated) =>
              /\ tree[x].name = tree_before[x].name
              /\ tree[x].class_name = tree_before[x].class_name
              /\ tree[x].properties = tree_before[x].properties
              /\ x \in DOMAIN metadata_map
              /\ metadata_map[x] = metadata_before[x]
        /\ tree[x].children =
              SelectSeq(tree_before[x].children, LAMBDA c : c \notin RemovedByPatch)
                  \o AddedUnder(x)

(* C20: a call changes only what the patch names: when it returns, the     *)
(* frame of the remaining instances is kept, and no step of finalization   *)
(* changes an instance that was in the tree before the call.               *)
C20_OnlyWhatThePatchNames ==
    [][/\ pc' = "done" => FrameKept'
       /\ (pc = "running" /\ LoopsDone) =>
             \A x \in DOMAIN tree_before \cap DOMAIN tree :
                 /\ x \in DOMAIN tree'
                 /\ tree'[x] = tree[x]]_vars

(* A returned call that removed the child of instance 2 and added an       *)
(* instance under the root: instance 2 lost its child and is otherwise as  *)
(* before, the root gained the new instance at the end of its child list.  *)
C20_Witness ==
    /\ pc = "done"
    /\ Applied.removed = <<3>>
    /\ Len(Applied.added) = 1
    /\ Applied.updated = <<>>
    /\ tree[2].children = <<>>
    /\ tree[2].properties = tree_before[2].properties
    /\ tree[1].children = <<2, MintedAt(1)>>
    /\ tree[1].properties = tree_before[1].properties
    /\ tree[MintedAt(1)].properties # EmptyMap

====
